---- MODULE Spec2Model ----
(***************************************************************************)
(* Multiplayer session / turn synchronisation of the geography game:       *)
(* the MultiplayerProvider controller (createRoom, joinRoom, leaveRoom,    *)
(* toggleReady, startGame, submitAnswer, refreshPlayers), its change-feed  *)
(* handlers and its effects, running on several clients against one       *)
(* shared store (tables rooms, room_players, game_state).                  *)
(*                                                                         *)
(* Every await of the controller is a suspension point: an operation is a  *)
(* chain of steps, one per request that reaches the store, and steps of    *)
(* different clients interleave freely.  Values an operation reads from    *)
(* React state (room, players, gameState) are those of the render that     *)
(* created the closure, so they are captured when the operation is called. *)
(***************************************************************************)
EXTENDS Integers, Sequences, FiniteSets, TLC

(* ------------------------------ bounds -------------------------------- *)

\* Signed-in identities; one client (browser session) per identity.
Users == {"A", "B", "C"}

\* Room ids: r1 is the room HostUser created before the first state, r2 is
\* free until somebody creates a second room.
Rooms == {"r1", "r2"}
HostUser == "A"

\* Codes a user may type into the join form: the room's code and a wrong one.
Codes == {"r1", "zz"}

\* max_players of the room row (a column of rooms; joinRoom reads it).
RoomCapacities == {2, 6}

\* Question payloads (opaque to the controller).
Questions == {"q1", "q2"}

\* Number of controller operations (calls) explored in one behaviour that
\* starts in the lobby (Init) and in one that starts in a running match (GameInit).
LobbyOps == 2
GameOps == 3

\* The same for a behaviour in which only the host's client takes steps, and
\* for the behaviours checked for progress.
SoloOps == 4
TurnOps == 3
LiveOps == 2

\* Column default of room_players.lives in the store.
InitialLives == 3

\* Column default of rooms.status in the store.
InitialStatus == "waiting"

\* Number of controller operations explored in a behaviour that starts with
\* an empty store.
CreateOps == 2
ScreenOps == 2
AbsentOps == 2
SwitchOps == 2
HostlessOps == 2

(* ------------------------- program constants -------------------------- *)

DefaultMaxPlayers == 6
CreatedMaxPlayers == 6
TurnSeconds == 30
MinPlayersToStart == 2

(* ------------------------------ values -------------------------------- *)

NullRoom == [id |-> "null", status |-> "null", host_id |-> "null", max_players |-> 0]
NullGame == [room_id |-> "null", current_turn |-> "null", current_question |-> "null",
             round |-> 0, time_left |-> 0]
NullRow == [id |-> 0, room_id |-> "null", player_id |-> "null", score |-> 0,
            lives |-> 0, is_ready |-> FALSE]
NoQuestion == "undefined"
NoError == "null"

\* The row the store creates for an insert into room_players
\* ({room_id, player_id, is_ready: true}; id, score and lives are column defaults).
NewRow(id, rid, u) ==
    [id |-> id, room_id |-> rid, player_id |-> u, score |-> 0,
     lives |-> InitialLives, is_ready |-> TRUE]

\* profile.username of an entry whose profile was not found
Placeholder == "Sin Nombre"
\* joined_at of a local entry: the stored column, or the client's clock
StoredJoinTime == "joined_at"
ClockJoinTime == "now"
\* profiles.username of a user (every user of the model has a profile)
UsernameOf(u) == u

\* fetchPlayers: one row of get_room_players mapped to a Player
MappedPlayer(p) ==
    [id |-> p.id, room_id |-> p.room_id, player_id |-> p.player_id, score |-> p.score,
     lives |-> p.lives, is_ready |-> p.is_ready, joined_at |-> StoredJoinTime,
     username |-> UsernameOf(p.player_id)]
MappedPlayers(rows) == [i \in 1..Len(rows) |-> MappedPlayer(rows[i])]

\* No controller operation in flight; ret is what the last createRoom returned.
IdleOp == [step |-> "idle", found |-> NullRoom, snap |-> <<>>, ok |-> TRUE,
           turn |-> "null", round |-> 0, q |-> NoQuestion, ret |-> "none"]

VARIABLES
    dbRooms,      \* table rooms: room id -> row
    dbPlayers,    \* table room_players, in insertion order
    dbGame,       \* table game_state: room id -> row or NullGame
    nextId,       \* next primary key of room_players
    room,         \* per client: useState room
    players,      \* per client: useState players
    gameState,    \* per client: useState gameState
    loading,      \* per client: useState loading
    error,        \* per client: useState error
    roomChannel,  \* per client: room id the roster channel is subscribed to, or "null"
    gameChannel,  \* per client: room id the turn channel is subscribed to, or "null"
    op,           \* per client: the controller operation in flight
    roomQ,        \* per client: change events of the roster channel not yet delivered
    gameQ,        \* per client: change events of the turn channel not yet delivered
    insPend,      \* per client: INSERT handlers waiting for the profile lookup
    lms,          \* per client: room id of a last-standing write in flight, or "null"
    rec,          \* per client: the recovery fetch of game_state in flight
    plFetch,      \* per client: a refreshPlayers fetch in flight
    ops,          \* controller operations that may still be called
    interstitial  \* per client: useState interstitial of the game screen

dbVars == <<dbRooms, dbPlayers, dbGame, nextId>>
viewVars == <<room, players, gameState, loading, error>>
chanVars == <<roomChannel, gameChannel, roomQ, gameQ>>
vars == <<dbRooms, dbPlayers, dbGame, nextId, room, players, gameState, loading,
          error, roomChannel, gameChannel, op, roomQ, gameQ, insPend, lms, rec,
          plFetch, ops, interstitial>>

(* ------------------------------ helpers ------------------------------- *)

RowsOf(rid) == SelectSeq(dbPlayers, LAMBDA r: r.room_id = rid)
RowsOfPlayer(rid, u) == SelectSeq(dbPlayers, LAMBDA r: r.room_id = rid /\ r.player_id = u)

\* players.find(p => p.player_id === user.id): the first match, or NullRow
FindMe(ps, u) ==
    LET hits == SelectSeq(ps, LAMBDA p: p.player_id = u)
    IN IF hits = <<>> THEN NullRow ELSE Head(hits)

FindIndexAbsentZero(ps, u) ==
    IF \E i \in 1..Len(ps): ps[i].player_id = u
    THEN (CHOOSE i \in 1..Len(ps):
             ps[i].player_id = u /\ \A j \in 1..(i-1): ps[j].player_id # u) - 1
    ELSE 0

\* players.findIndex(...) with JavaScript's 0-based index, -1 when absent
FindIndex(ps, u) ==
    IF \E i \in 1..Len(ps): ps[i].player_id = u
    THEN (CHOOSE i \in 1..Len(ps):
             ps[i].player_id = u /\ \A j \in 1..(i-1): ps[j].player_id # u) - 1
    ELSE -1

\* room?.host_id === user?.id
IsHost(r, u) == r.host_id = u

\* foundRoom.max_players || 6
CapacityOf(r) == IF r.max_players # 0 THEN r.max_players ELSE DefaultMaxPlayers

(* ------------------------- change-feed events ------------------------- *)

RosterEvent(type, row) == [type |-> type, row |-> row, room |-> NullRoom]
RoomEvent(r) == [type |-> "ROOM", row |-> NullRow, room |-> r]

\* The store appends the events of a write to the feed of every live channel
\* whose filter (room_id = rid) matches.
PushRoom(rid, evs) ==
    roomQ' = [c \in Users |-> IF roomChannel[c] = rid THEN roomQ[c] \o evs ELSE roomQ[c]]

PushGame(rid, g) ==
    gameQ' = [c \in Users |-> IF gameChannel[c] = rid THEN Append(gameQ[c], g) ELSE gameQ[c]]

(* ------------------------------ effects ------------------------------- *)

LmsDepsNoLength(r, ps, ld, u) == <<r.status, IsHost(r, u), ld, r.id>>

\* Dependencies of the last-standing effect:
\* [players.length, room?.status, isHost, loading, room?.id]
LmsDeps(r, ps, ld, u) == <<Len(ps), r.status, IsHost(r, u), ld, r.id>>

LmsCondAnyClient(r, ps, ld, u) ==
    r.status = "playing" /\ Len(ps) = 1 /\ ~ld

\* room?.status === 'playing' && players.length === 1 && !loading, then isHost
LmsCond(r, ps, ld, u) ==
    r.status = "playing" /\ Len(ps) = 1 /\ ~ld /\ IsHost(r, u)

\* Dependencies of the recovery effect: [room?.status, room?.id, gameState]
RecDeps(r, g) == <<r.status, r.id, g>>

\* room?.status === 'playing' && !gameState
RecCond(r, g) == r.status = "playing" /\ g = NullGame

NoRec == [st |-> "none", rid |-> "null", data |-> NullGame]

NoInterstitial == "null"

\* MultiplayerPage shows the game screen while room && room.status === 'playing'.
Mounted(r) == r # NullRoom /\ r.status = "playing"

\* The game screen's effect on [gameState?.current_turn]: when the screen
\* mounts or the turn changes, and a turn is set, the countdown starts at '3'
\* (the timers of a running countdown are cleared).  The screen's state is
\* lost when it unmounts.
ScreenEffect ==
    interstitial' = [c \in Users |->
        LET fires == /\ \/ ~Mounted(room[c])
                        \/ gameState'[c].current_turn # gameState[c].current_turn
                     /\ gameState'[c].current_turn # "null"
        IN IF ~Mounted(room'[c]) THEN NoInterstitial
           ELSE IF fires THEN "3"
           ELSE IF ~Mounted(room[c]) THEN NoInterstitial
           ELSE interstitial[c]]

\* React runs an effect after a render in which one of its dependencies changed.
\* The last-standing effect then issues its write, the recovery effect its fetch.
Effects ==
    /\ lms' = [c \in Users |->
                 IF /\ LmsDeps(room'[c], players'[c], loading'[c], c)
                        # LmsDeps(room[c], players[c], loading[c], c)
                    /\ LmsCond(room'[c], players'[c], loading'[c], c)
                 THEN room'[c].id ELSE lms[c]]
    /\ rec' = [c \in Users |->
                 IF /\ RecDeps(room'[c], gameState'[c]) # RecDeps(room[c], gameState[c])
                    /\ RecCond(room'[c], gameState'[c])
                 THEN [st |-> "sent", rid |-> room'[c].id, data |-> NullGame]
                 ELSE rec[c]]
    /\ ScreenEffect

(* ------------------------------- Init --------------------------------- *)

\* The state after HostUser's createRoom has completed: the room row (status
\* is the column default 'waiting'), the host's roster row, the host's local
\* view fetched (unless get_room_players failed, which leaves the roster
\* empty) and both channels subscribed.  Every other client has just loaded
\* the page.
Init ==
    \E cap \in RoomCapacities, fetched \in BOOLEAN:
      LET r == [id |-> "r1", status |-> InitialStatus, host_id |-> HostUser,
                max_players |-> cap]
          row == NewRow(1, "r1", HostUser)
      IN /\ dbRooms = [x \in Rooms |-> IF x = "r1" THEN r ELSE NullRoom]
         /\ dbPlayers = <<row>>
         /\ dbGame = [x \in Rooms |-> NullGame]
         /\ nextId = 2
         /\ room = [c \in Users |-> IF c = HostUser THEN r ELSE NullRoom]
         /\ players = [c \in Users |-> IF c = HostUser /\ fetched
                                     THEN <<MappedPlayer(row)>> ELSE <<>>]
         /\ gameState = [c \in Users |-> NullGame]
         /\ loading = [c \in Users |-> FALSE]
         /\ error = [c \in Users |-> NoError]
         /\ roomChannel = [c \in Users |-> IF c = HostUser THEN "r1" ELSE "null"]
         /\ gameChannel = [c \in Users |-> IF c = HostUser THEN "r1" ELSE "null"]
         /\ op = [c \in Users |-> IdleOp]
         /\ roomQ = [c \in Users |-> <<>>]
         /\ gameQ = [c \in Users |-> <<>>]
         /\ insPend = [c \in Users |-> {}]
         /\ lms = [c \in Users |-> "null"]
         /\ rec = [c \in Users |-> NoRec]
         /\ plFetch = [c \in Users |-> [st |-> "none", snap |-> <<>>]]
         /\ ops = LobbyOps
         /\ interstitial = [c \in Users |-> NoInterstitial]

(* ----------------------------- createRoom ----------------------------- *)

CreatedRoomPlaying(rid, u) ==
    [id |-> rid, status |-> "playing", host_id |-> u, max_players |-> CreatedMaxPlayers]

\* The row the store creates for createRoom's insert into rooms
\* ({room_code, host_id: user.id, game_mode, max_players: 6}; the room is
\* known by its code; status is the column default).
CreatedRoom(rid, u) ==
    [id |-> rid, status |-> InitialStatus, host_id |-> u, max_players |-> CreatedMaxPlayers]

\* createRoom(gameMode): setLoading(true), setError(null).
CreateRoom(c) ==
    /\ op[c].step = "idle"
    /\ ops > 0
    /\ \E rid \in Rooms: dbRooms[rid] = NullRoom
    /\ ops' = ops - 1
    /\ op' = [op EXCEPT ![c] = [IdleOp EXCEPT !.step = "c_room"]]
    /\ loading' = [loading EXCEPT ![c] = TRUE]
    /\ error' = [error EXCEPT ![c] = NoError]
    /\ UNCHANGED <<dbVars, room, players, gameState, chanVars, insPend, plFetch>>
    /\ Effects

\* The random code and the insert into rooms; on roomError the catch block
\* (setError, return null) and finally setLoading(false).
CreateInsert(c, ok) ==
    /\ op[c].step = "c_room"
    /\ IF ok
       THEN \E rid \in Rooms:
              /\ dbRooms[rid] = NullRoom
              /\ dbRooms' = [dbRooms EXCEPT ![rid] = CreatedRoom(rid, c)]
              /\ op' = [op EXCEPT ![c].step = "c_player",
                                  ![c].found = CreatedRoom(rid, c)]
              /\ UNCHANGED <<error, loading>>
       ELSE /\ error' = [error EXCEPT ![c] = "backend"]
            /\ loading' = [loading EXCEPT ![c] = FALSE]
            /\ op' = [op EXCEPT ![c] = [IdleOp EXCEPT !.ret = "null"]]
            /\ UNCHANGED dbRooms
    /\ UNCHANGED <<dbPlayers, dbGame, nextId, room, players, gameState, chanVars,
                   insPend, plFetch, ops>>
    /\ Effects

\* insert({room_id: newRoom.id, player_id: user.id, is_ready: true}), then
\* setRoom(newRoom); on playerError the catch block.
CreatePlayer(c, ok) ==
    /\ op[c].step = "c_player"
    /\ IF ok
       THEN LET row == NewRow(nextId, op[c].found.id, c)
            IN /\ dbPlayers' = Append(dbPlayers, row)
               /\ nextId' = nextId + 1
               /\ PushRoom(op[c].found.id, <<RosterEvent("INSERT", row)>>)
               /\ room' = [room EXCEPT ![c] = op[c].found]
               /\ op' = [op EXCEPT ![c].step = "c_fetch"]
               /\ UNCHANGED <<error, loading>>
       ELSE /\ error' = [error EXCEPT ![c] = "backend"]
            /\ loading' = [loading EXCEPT ![c] = FALSE]
            /\ op' = [op EXCEPT ![c] = [IdleOp EXCEPT !.ret = "null"]]
            /\ UNCHANGED <<dbPlayers, nextId, roomQ, room>>
    /\ UNCHANGED <<dbRooms, dbGame, players, gameState, roomChannel, gameChannel,
                   gameQ, insPend, plFetch, ops>>
    /\ Effects

\* fetchPlayers(newRoom.id): the get_room_players call answered by the store.
CreateFetch(c, ok) ==
    /\ op[c].step = "c_fetch"
    /\ op' = [op EXCEPT ![c].step = "c_apply", ![c].ok = ok,
                        ![c].snap = IF ok THEN MappedPlayers(RowsOf(op[c].found.id)) ELSE <<>>]
    /\ UNCHANGED <<dbVars, viewVars, chanVars, insPend, lms, rec, plFetch, ops>>
    /\ UNCHANGED interstitial

\* setPlayers(mappedPlayers) unless the call failed, subscribeToRoom,
\* subscribeToGame, return roomCode, finally setLoading(false).
CreateApply(c) ==
    /\ op[c].step = "c_apply"
    /\ players' = [players EXCEPT ![c] = IF op[c].ok THEN op[c].snap ELSE @]
    /\ roomChannel' = [roomChannel EXCEPT ![c] = op[c].found.id]
    /\ gameChannel' = [gameChannel EXCEPT ![c] = op[c].found.id]
    /\ roomQ' = [roomQ EXCEPT ![c] = <<>>]
    /\ gameQ' = [gameQ EXCEPT ![c] = <<>>]
    /\ loading' = [loading EXCEPT ![c] = FALSE]
    /\ op' = [op EXCEPT ![c] = [IdleOp EXCEPT !.ret = op[c].found.id]]
    /\ UNCHANGED <<dbVars, room, gameState, error, insPend, plFetch, ops>>
    /\ Effects

(* ------------------------------ joinRoom ------------------------------ *)

\* joinRoom(code): setLoading(true), setError(null) and the room lookup
\* (select from rooms where room_code = code, .single()).
JoinRoom(c, code) ==
    /\ op[c].step = "idle"
    /\ ops > 0
    /\ ops' = ops - 1
    /\ op' = [op EXCEPT ![c] = [IdleOp EXCEPT !.step = "j_lookup",
                 !.found = IF code \in Rooms THEN dbRooms[code] ELSE NullRoom]]
    /\ loading' = [loading EXCEPT ![c] = TRUE]
    /\ error' = [error EXCEPT ![c] = NoError]
    /\ UNCHANGED <<dbVars, room, players, gameState, chanVars, insPend, plFetch>>
    /\ Effects

JoinNotFoundClears(c) ==
    /\ op[c].step = "j_lookup"
    /\ op[c].found = NullRoom
    /\ error' = [error EXCEPT ![c] = "Room not found"]
    /\ loading' = [loading EXCEPT ![c] = FALSE]
    /\ room' = [room EXCEPT ![c] = NullRoom]
    /\ players' = [players EXCEPT ![c] = <<>>]
    /\ op' = [op EXCEPT ![c] = IdleOp]
    /\ UNCHANGED <<dbVars, gameState, chanVars, insPend, plFetch, ops>>
    /\ Effects

\* if (fetchError || !foundRoom) throw new Error('Room not found')
JoinNotFound(c) ==
    /\ op[c].step = "j_lookup"
    /\ op[c].found = NullRoom
    /\ error' = [error EXCEPT ![c] = "Room not found"]
    /\ loading' = [loading EXCEPT ![c] = FALSE]
    /\ op' = [op EXCEPT ![c] = IdleOp]
    /\ UNCHANGED <<dbVars, room, players, gameState, chanVars, insPend, plFetch, ops>>
    /\ Effects

ExistingPlayerNever(rid, u) == FALSE

\* select room_players where room_id, player_id  .maybeSingle(): the row when
\* exactly one matches, no data otherwise.
ExistingPlayer(rid, u) == Len(RowsOfPlayer(rid, u)) = 1

\* if (existingPlayer) ... else ...
JoinCheckExisting(c) ==
    /\ op[c].step = "j_lookup"
    /\ op[c].found # NullRoom
    /\ op' = [op EXCEPT ![c].step =
                 IF ExistingPlayer(op[c].found.id, c) THEN "j_exists" ELSE "j_new"]
    /\ UNCHANGED <<dbVars, viewVars, chanVars, insPend, lms, rec, plFetch, ops>>
    /\ UNCHANGED interstitial

\* Rejoin: update({is_ready: true}) on the caller's row, then setRoom(foundRoom).
\* The answer of the update is not examined: a rejected write changes nothing
\* in the store and the join goes on.
JoinUpdateReady(c, ok) ==
    /\ op[c].step = "j_exists"
    /\ LET rid == op[c].found.id
           hit(r) == r.room_id = rid /\ r.player_id = c
           new == [i \in 1..Len(dbPlayers) |->
                     IF hit(dbPlayers[i]) THEN [dbPlayers[i] EXCEPT !.is_ready = TRUE]
                     ELSE dbPlayers[i]]
           evs == [i \in 1..Len(RowsOfPlayer(rid, c)) |->
                     RosterEvent("UPDATE", [RowsOfPlayer(rid, c)[i] EXCEPT !.is_ready = TRUE])]
       IN IF ok
          THEN dbPlayers' = new /\ PushRoom(rid, evs)
          ELSE UNCHANGED <<dbPlayers, roomQ>>
    /\ room' = [room EXCEPT ![c] = op[c].found]
    /\ op' = [op EXCEPT ![c].step = "j_fetch"]
    /\ UNCHANGED <<dbRooms, dbGame, nextId, players, gameState, loading, error,
                   roomChannel, gameChannel, gameQ, insPend, plFetch, ops>>
    /\ Effects

\* New player: the head count, and 'Room is full' when it has reached the capacity.
JoinCount(c) ==
    /\ op[c].step = "j_new"
    /\ LET count == Len(RowsOf(op[c].found.id))
       IN IF count # 0 /\ count >= CapacityOf(op[c].found)
          THEN /\ error' = [error EXCEPT ![c] = "Room is full"]
               /\ loading' = [loading EXCEPT ![c] = FALSE]
               /\ op' = [op EXCEPT ![c] = IdleOp]
          ELSE /\ op' = [op EXCEPT ![c].step = "j_insert"]
               /\ UNCHANGED <<error, loading>>
    /\ UNCHANGED <<dbVars, room, players, gameState, chanVars, insPend, plFetch, ops>>
    /\ Effects

\* insert({room_id, player_id, is_ready: true}); on joinError the catch block.
JoinInsert(c, ok) ==
    /\ op[c].step = "j_insert"
    /\ IF ok
       THEN LET row == NewRow(nextId, op[c].found.id, c)
            IN /\ dbPlayers' = Append(dbPlayers, row)
               /\ nextId' = nextId + 1
               /\ PushRoom(op[c].found.id, <<RosterEvent("INSERT", row)>>)
               /\ room' = [room EXCEPT ![c] = op[c].found]
               /\ op' = [op EXCEPT ![c].step = "j_fetch"]
               /\ UNCHANGED <<error, loading>>
       ELSE /\ error' = [error EXCEPT ![c] = "backend"]
            /\ loading' = [loading EXCEPT ![c] = FALSE]
            /\ op' = [op EXCEPT ![c] = IdleOp]
            /\ UNCHANGED <<dbPlayers, nextId, roomQ, room>>
    /\ UNCHANGED <<dbRooms, dbGame, players, gameState, roomChannel, gameChannel,
                   gameQ, insPend, plFetch, ops>>
    /\ Effects

\* fetchPlayers: the get_room_players call answered by the store.
JoinFetch(c, ok) ==
    /\ op[c].step = "j_fetch"
    /\ op' = [op EXCEPT ![c].step = "j_apply", ![c].ok = ok,
                        ![c].snap = IF ok THEN MappedPlayers(RowsOf(op[c].found.id)) ELSE <<>>]
    /\ UNCHANGED <<dbVars, viewVars, chanVars, insPend, lms, rec, plFetch, ops>>
    /\ UNCHANGED interstitial

\* setPlayers(mappedPlayers) unless the call failed, subscribeToRoom,
\* subscribeToGame, return true, finally setLoading(false).  The channel
\* cleanup effect releases the channels held before.
JoinApply(c) ==
    /\ op[c].step = "j_apply"
    /\ players' = [players EXCEPT ![c] = IF op[c].ok THEN op[c].snap ELSE @]
    /\ roomChannel' = [roomChannel EXCEPT ![c] = op[c].found.id]
    /\ gameChannel' = [gameChannel EXCEPT ![c] = op[c].found.id]
    /\ roomQ' = [roomQ EXCEPT ![c] = <<>>]
    /\ gameQ' = [gameQ EXCEPT ![c] = <<>>]
    /\ loading' = [loading EXCEPT ![c] = FALSE]
    /\ op' = [op EXCEPT ![c] = IdleOp]
    /\ UNCHANGED <<dbVars, room, gameState, error, insPend, plFetch, ops>>
    /\ Effects

(* ----------------------------- leaveRoom ------------------------------ *)

\* leaveRoom(): delete from room_players where room_id, player_id; the answer
\* of the store is not looked at.
LeaveRoom(c, ok) ==
    /\ op[c].step = "idle"
    /\ ops > 0
    /\ room[c] # NullRoom
    /\ ops' = ops - 1
    /\ LET rid == room[c].id
           gone == RowsOfPlayer(rid, c)
       IN IF ok
          THEN /\ dbPlayers' = SelectSeq(dbPlayers,
                                   LAMBDA r: ~(r.room_id = rid /\ r.player_id = c))
               /\ PushRoom(rid, [i \in 1..Len(gone) |-> RosterEvent("DELETE", gone[i])])
          ELSE UNCHANGED <<dbPlayers, roomQ>>
    /\ op' = [op EXCEPT ![c].step = "l_clear"]
    /\ UNCHANGED <<dbRooms, dbGame, nextId, viewVars, roomChannel, gameChannel, gameQ,
                   insPend, lms, rec, plFetch>>
    /\ UNCHANGED interstitial

\* setRoom(null), setPlayers([]), setGameState(null), both channels unsubscribed.
LeaveClear(c) ==
    /\ op[c].step = "l_clear"
    /\ room' = [room EXCEPT ![c] = NullRoom]
    /\ players' = [players EXCEPT ![c] = <<>>]
    /\ gameState' = [gameState EXCEPT ![c] = NullGame]
    /\ roomChannel' = [roomChannel EXCEPT ![c] = "null"]
    /\ gameChannel' = [gameChannel EXCEPT ![c] = "null"]
    /\ roomQ' = [roomQ EXCEPT ![c] = <<>>]
    /\ gameQ' = [gameQ EXCEPT ![c] = <<>>]
    /\ op' = [op EXCEPT ![c] = IdleOp]
    /\ UNCHANGED <<dbVars, loading, error, insPend, plFetch, ops>>
    /\ Effects

(* ---------------------------- toggleReady ----------------------------- *)

ToggledValueTrue(me) == TRUE

\* !me.is_ready
ToggledValue(me) == ~me.is_ready

\* toggleReady(): update({is_ready: !me.is_ready}) where room_id, player_id;
\* a rejected write is only logged.
ToggleReady(c, ok) ==
    /\ op[c].step = "idle"
    /\ ops > 0
    /\ room[c] # NullRoom
    /\ FindMe(players[c], c) # NullRow
    /\ ops' = ops - 1
    /\ LET rid == room[c].id
           val == ToggledValue(FindMe(players[c], c))
           hit(r) == r.room_id = rid /\ r.player_id = c
           old == RowsOfPlayer(rid, c)
       IN IF ok
          THEN /\ dbPlayers' = [i \in 1..Len(dbPlayers) |->
                                  IF hit(dbPlayers[i])
                                  THEN [dbPlayers[i] EXCEPT !.is_ready = val]
                                  ELSE dbPlayers[i]]
               /\ PushRoom(rid, [i \in 1..Len(old) |->
                                  RosterEvent("UPDATE", [old[i] EXCEPT !.is_ready = val])])
          ELSE UNCHANGED <<dbPlayers, roomQ>>
    /\ UNCHANGED <<dbRooms, dbGame, nextId, viewVars, roomChannel, gameChannel, gameQ,
                   op, insPend, lms, rec, plFetch>>
    /\ UNCHANGED interstitial

(* ----------------------------- startGame ------------------------------ *)

\* game_state holds one row per room: a second insert for a room is rejected.
GameInsertAccepted(rid) == dbGame[rid] = NullGame

NotHostNever(r, u) == FALSE

\* room.host_id !== user.id
NotHost(r, u) == r.host_id # u

\* startGame(initialQuestion) up to the answer of update({status: 'playing'}):
\* the host check, the all-ready check on the local roster, the write.
StartGame(c, q, ok) ==
    /\ op[c].step = "idle"
    /\ ops > 0
    /\ room[c] # NullRoom
    /\ ops' = ops - 1
    /\ IF NotHost(room[c], c)
       THEN UNCHANGED <<dbRooms, roomQ, error, op>>
       ELSE IF ~(\A i \in 1..Len(players[c]): players[c][i].is_ready)
       THEN /\ error' = [error EXCEPT ![c] = "Not all players are ready"]
            /\ UNCHANGED <<dbRooms, roomQ, op>>
       ELSE IF ok
       THEN LET rid == room[c].id
                new == [dbRooms[rid] EXCEPT !.status = "playing"]
            IN /\ dbRooms' = [dbRooms EXCEPT ![rid] = new]
               /\ PushRoom(rid, <<RoomEvent(new)>>)
               /\ op' = [op EXCEPT ![c] = [IdleOp EXCEPT !.step = "s_insert",
                                                         !.found = room[c], !.q = q]]
               /\ UNCHANGED error
       ELSE /\ error' = [error EXCEPT ![c] = "backend"]
            /\ UNCHANGED <<dbRooms, roomQ, op>>
    /\ UNCHANGED <<dbPlayers, dbGame, nextId, room, players, gameState, loading,
                   roomChannel, gameChannel, gameQ, insPend, lms, rec, plFetch>>
    /\ UNCHANGED interstitial

InitialGameStateRoundZero(r, q) ==
    [room_id |-> r.id, current_turn |-> r.host_id, current_question |-> q,
     round |-> 0, time_left |-> TurnSeconds]

\* {room_id: room.id, current_turn: room.host_id, current_question:
\* initialQuestion, round: 1, time_left: 30}
InitialGameState(r, q) ==
    [room_id |-> r.id, current_turn |-> r.host_id, current_question |-> q,
     round |-> 1, time_left |-> TurnSeconds]

\* insert into game_state; on gameError the catch block.
StartInsert(c, ok) ==
    /\ op[c].step = "s_insert"
    /\ LET rid == op[c].found.id
           g == InitialGameState(op[c].found, op[c].q)
       IN IF ok /\ GameInsertAccepted(rid)
          THEN /\ dbGame' = [dbGame EXCEPT ![rid] = g]
               /\ PushGame(rid, g)
               /\ UNCHANGED error
          ELSE /\ error' = [error EXCEPT ![c] = "backend"]
               /\ UNCHANGED <<dbGame, gameQ>>
    /\ op' = [op EXCEPT ![c] = IdleOp]
    /\ UNCHANGED <<dbRooms, dbPlayers, nextId, room, players, gameState, loading,
                   roomChannel, gameChannel, roomQ, insPend, lms, rec, plFetch, ops>>
    /\ UNCHANGED interstitial

(* ---------------------------- submitAnswer ---------------------------- *)

NextIndexStay(ps, turn) == FindIndex(ps, turn) % Len(ps)

\* (currentIndex + 1) % players.length
NextIndex(ps, turn) == (FindIndex(ps, turn) + 1) % Len(ps)

AnswerWriteBoth(row, me, isCorrect) ==
    [row EXCEPT !.score = me.score + 1, !.lives = me.lives - 1]

\* The row submitAnswer writes for the caller: score: me.score + 1 when the
\* answer is correct, lives: me.lives - 1 when it is not.
AnswerWrite(row, me, isCorrect) ==
    IF isCorrect THEN [row EXCEPT !.score = me.score + 1]
    ELSE [row EXCEPT !.lives = me.lives - 1]

RotatesAlways(nq) == TRUE

\* if (nextQuestion)
Rotates(nq) == nq # NoQuestion

\* submitAnswer(isCorrect, nextQuestion) up to the answer of the score / lives
\* update.  The rotation that follows uses players and gameState of the same
\* closure, so its values are fixed here.
SubmitAnswer(c, isCorrect, nq) ==
    /\ op[c].step = "idle"
    /\ ops > 0
    /\ room[c] # NullRoom
    /\ gameState[c] # NullGame
    /\ FindMe(players[c], c) # NullRow
    /\ ops' = ops - 1
    /\ LET rid == room[c].id
           me == FindMe(players[c], c)
           hit(r) == r.room_id = rid /\ r.player_id = c
           old == RowsOfPlayer(rid, c)
           nextIndex == NextIndex(players[c], gameState[c].current_turn)
       IN /\ dbPlayers' = [i \in 1..Len(dbPlayers) |->
                             IF hit(dbPlayers[i])
                             THEN AnswerWrite(dbPlayers[i], me, isCorrect)
                             ELSE dbPlayers[i]]
          /\ PushRoom(rid, [i \in 1..Len(old) |->
                             RosterEvent("UPDATE", AnswerWrite(old[i], me, isCorrect))])
          /\ op' = IF ~Rotates(nq) THEN op
                   ELSE [op EXCEPT ![c] =
                           [IdleOp EXCEPT !.step = "a_rotate", !.found = room[c],
                              !.turn = players[c][nextIndex + 1].player_id,
                              !.round = gameState[c].round
                                          + (IF nextIndex = 0 THEN 1 ELSE 0),
                              !.q = nq]]
    /\ UNCHANGED <<dbRooms, dbGame, nextId, viewVars, roomChannel, gameChannel, gameQ,
                   insPend, lms, rec, plFetch>>
    /\ UNCHANGED interstitial

\* update game_state {current_turn, current_question, round, time_left: 30}
\* where room_id.
SubmitRotate(c) ==
    /\ op[c].step = "a_rotate"
    /\ LET rid == op[c].found.id
           g == [dbGame[rid] EXCEPT !.current_turn = op[c].turn,
                                    !.current_question = op[c].q,
                                    !.round = op[c].round,
                                    !.time_left = TurnSeconds]
       IN IF dbGame[rid] # NullGame
          THEN dbGame' = [dbGame EXCEPT ![rid] = g] /\ PushGame(rid, g)
          ELSE UNCHANGED <<dbGame, gameQ>>
    /\ op' = [op EXCEPT ![c] = IdleOp]
    /\ UNCHANGED <<dbRooms, dbPlayers, nextId, viewVars, roomChannel, gameChannel,
                   roomQ, insPend, lms, rec, plFetch, ops>>
    /\ UNCHANGED interstitial

(* --------------------------- refreshPlayers --------------------------- *)

NoFetch == [st |-> "none", snap |-> <<>>]

\* refreshPlayers(): fetchPlayers(room.id), answered by the store; a failed
\* call returns without touching the roster.
RefreshPlayers(c, ok) ==
    /\ plFetch[c].st = "none"
    /\ ops > 0
    /\ room[c] # NullRoom
    /\ ops' = ops - 1
    /\ plFetch' = [plFetch EXCEPT ![c] =
                      IF ok THEN [st |-> "resp", snap |-> MappedPlayers(RowsOf(room[c].id))]
                      ELSE NoFetch]
    /\ UNCHANGED <<dbVars, viewVars, chanVars, op, insPend, lms, rec>>
    /\ UNCHANGED interstitial

\* setPlayers(mappedPlayers)
RefreshApply(c) ==
    /\ plFetch[c].st = "resp"
    /\ players' = [players EXCEPT ![c] = plFetch[c].snap]
    /\ plFetch' = [plFetch EXCEPT ![c] = NoFetch]
    /\ UNCHANGED <<dbVars, room, gameState, loading, error, chanVars, op, insPend, ops>>
    /\ Effects

(* ------------------------ change-feed handlers ------------------------ *)

\* UPDATE: merge score, lives, is_ready into the entry with the event's id.
MergeUpdateDropsProfile(ps, row) ==
    [i \in 1..Len(ps) |->
       IF ps[i].id = row.id
       THEN [ps[i] EXCEPT !.score = row.score, !.lives = row.lives,
                          !.is_ready = row.is_ready, !.username = Placeholder]
       ELSE ps[i]]
MergeUpdate(ps, row) ==
    [i \in 1..Len(ps) |->
       IF ps[i].id = row.id
       THEN [ps[i] EXCEPT !.score = row.score, !.lives = row.lives,
                          !.is_ready = row.is_ready]
       ELSE ps[i]]

\* DELETE: prev.filter(p => p.id !== payload.old.id)
RemoveById(ps, id) == SelectSeq(ps, LAMBDA p: p.id # id)

\* The entry an INSERT handler builds from the event's row and the answer of
\* its profile lookup (found = FALSE: the lookup failed or matched no profile).
NewPlayer(row, found) ==
    [id |-> row.id, room_id |-> row.room_id, player_id |-> row.player_id,
     score |-> row.score, lives |-> row.lives, is_ready |-> row.is_ready,
     joined_at |-> ClockJoinTime,
     username |-> IF found THEN UsernameOf(row.player_id) ELSE Placeholder]

\* INSERT, after the profile lookup: append unless the id is already present.
AppendNewAlways(ps, p) == Append(ps, p)
AppendNew(ps, p) ==
    IF \E i \in 1..Len(ps): ps[i].id = p.id THEN ps ELSE Append(ps, p)

\* The next event of the roster channel reaches its handler.
DeliverRoom(c) ==
    /\ roomQ[c] # <<>>
    /\ LET e == Head(roomQ[c])
       IN /\ insPend' = [insPend EXCEPT ![c] =
                            IF e.type = "INSERT" THEN @ \cup {e.row} ELSE @]
          /\ players' = [players EXCEPT ![c] =
                            IF e.type = "UPDATE" THEN MergeUpdate(@, e.row)
                            ELSE IF e.type = "DELETE" THEN RemoveById(@, e.row.id)
                            ELSE @]
          /\ room' = [room EXCEPT ![c] = IF e.type = "ROOM" THEN e.room ELSE @]
    /\ roomQ' = [roomQ EXCEPT ![c] = Tail(@)]
    /\ UNCHANGED <<dbVars, gameState, loading, error, roomChannel, gameChannel, gameQ,
                   op, plFetch, ops>>
    /\ Effects

\* The profile lookup of an INSERT handler returns.
InsertDone(c, found) ==
    \E row \in insPend[c]:
      /\ players' = [players EXCEPT ![c] = AppendNew(@, NewPlayer(row, found))]
      /\ insPend' = [insPend EXCEPT ![c] = @ \ {row}]
      /\ UNCHANGED <<dbVars, room, gameState, loading, error, chanVars, op, plFetch, ops>>
      /\ Effects

\* The next event of the turn channel: setGameState(payload.new).
DeliverGame(c) ==
    /\ gameQ[c] # <<>>
    /\ gameState' = [gameState EXCEPT ![c] = Head(gameQ[c])]
    /\ gameQ' = [gameQ EXCEPT ![c] = Tail(@)]
    /\ UNCHANGED <<dbVars, room, players, loading, error, roomChannel, gameChannel,
                   roomQ, op, insPend, plFetch, ops>>
    /\ Effects

(* --------------------------- effect requests -------------------------- *)

\* The last-standing effect's update({status: 'finished'}) reaches the store;
\* a rejected write is only logged.
FinishWrite(c, ok) ==
    /\ lms[c] # "null"
    /\ LET rid == lms[c]
           new == [dbRooms[rid] EXCEPT !.status = "finished"]
       IN IF ok
          THEN dbRooms' = [dbRooms EXCEPT ![rid] = new] /\ PushRoom(rid, <<RoomEvent(new)>>)
          ELSE UNCHANGED <<dbRooms, roomQ>>
    /\ lms' = [lms EXCEPT ![c] = "null"]
    /\ UNCHANGED <<dbPlayers, dbGame, nextId, viewVars, roomChannel, gameChannel, gameQ,
                   op, insPend, rec, plFetch, ops>>
    /\ UNCHANGED interstitial

\* The recovery effect's select from game_state where room_id, .single()
RecoveryRead(c) ==
    /\ rec[c].st = "sent"
    /\ rec' = [rec EXCEPT ![c] = [@ EXCEPT !.st = "resp", !.data = dbGame[rec[c].rid]]]
    /\ UNCHANGED <<dbVars, viewVars, chanVars, op, insPend, lms, plFetch, ops>>
    /\ UNCHANGED interstitial

\* if (data) setGameState(data)
RecoveryApply(c) ==
    /\ rec[c].st = "resp"
    /\ gameState' = [gameState EXCEPT ![c] =
                        IF rec[c].data # NullGame THEN rec[c].data ELSE @]
    /\ rec' = [rec EXCEPT ![c] = NoRec]
    /\ UNCHANGED <<dbVars, room, players, loading, error, chanVars, op, insPend, lms,
                   plFetch, ops>>
    /\ ScreenEffect

(* ---------------------------- game screen ---------------------------- *)

\* One of the countdown's timers fires: '3', '2', '1', the turn banner, null.
Countdown(c) ==
    /\ interstitial[c] # NoInterstitial
    /\ interstitial' = [interstitial EXCEPT ![c] =
                           IF @ = "3" THEN "2"
                           ELSE IF @ = "2" THEN "1"
                           ELSE IF @ = "1" THEN "TU TURNO"
                           ELSE NoInterstitial]
    /\ UNCHANGED <<dbVars, viewVars, chanVars, op, insPend, lms, rec, plFetch, ops>>

IsMyTurnAlways(c) == TRUE

\* isMyTurn = auth.user?.id === gameState?.current_turn
IsMyTurn(c) == gameState[c].current_turn = c

\* handleGuess(code): a click on the map of the game screen.  A guess made
\* during the countdown, out of turn or without a TurnState returns at once;
\* otherwise it calls submitAnswer(isCorrect, nextQuestion).
HandleGuess(c, isCorrect, nq) ==
    /\ Mounted(room[c])
    /\ interstitial[c] = NoInterstitial
    /\ IsMyTurn(c)
    /\ gameState[c] # NullGame
    /\ SubmitAnswer(c, isCorrect, nq)

(* ---------------------------- lobby screen --------------------------- *)

\* MultiplayerPage shows the lobby while room is set and room.status === 'waiting'.
LobbyShown(r) == r # NullRoom /\ r.status = "waiting"

CanStartAlone(c) ==
    /\ IsHost(room[c], c)
    /\ Len(players[c]) > 0
    /\ \A i \in 1..Len(players[c]): players[c][i].is_ready

\* canStart = isHost && allReady && players.length >= 2, with
\* allReady = players.length > 0 && players.every(p => p.is_ready)
CanStart(c) ==
    /\ IsHost(room[c], c)
    /\ Len(players[c]) > 0
    /\ \A i \in 1..Len(players[c]): players[c][i].is_ready
    /\ Len(players[c]) >= MinPlayersToStart

\* A click on the lobby's start button, which is rendered for the host and
\* disabled unless canStart: handleStartGame calls startGame(question).
LobbyStart(c, q, ok) ==
    /\ LobbyShown(room[c])
    /\ CanStart(c)
    /\ StartGame(c, q, ok)

(* -------------------------------- Next -------------------------------- *)

Next ==
    \E c \in Users:
        \/ \E code \in Codes: JoinRoom(c, code)
        \/ JoinNotFound(c)
        \/ JoinCheckExisting(c)
        \/ \E ok \in BOOLEAN: JoinUpdateReady(c, ok)
        \/ JoinCount(c)
        \/ \E ok \in BOOLEAN: JoinInsert(c, ok)
        \/ \E ok \in BOOLEAN: JoinFetch(c, ok)
        \/ JoinApply(c)
        \/ \E ok \in BOOLEAN: LeaveRoom(c, ok)
        \/ LeaveClear(c)
        \/ \E ok \in BOOLEAN: ToggleReady(c, ok)
        \/ \E q \in Questions, ok \in BOOLEAN: StartGame(c, q, ok)
        \/ \E ok \in BOOLEAN: StartInsert(c, ok)
        \/ \E b \in BOOLEAN, nq \in Questions \cup {NoQuestion}: SubmitAnswer(c, b, nq)
        \/ SubmitRotate(c)
        \/ \E ok \in BOOLEAN: RefreshPlayers(c, ok)
        \/ RefreshApply(c)
        \/ DeliverRoom(c)
        \/ \E found \in BOOLEAN: InsertDone(c, found)
        \/ DeliverGame(c)
        \/ \E ok \in BOOLEAN: FinishWrite(c, ok)
        \/ RecoveryRead(c)
        \/ RecoveryApply(c)

Spec == Init /\ [][Next]_vars

(* ------------------------- a match under way -------------------------- *)

\* The players of the running match.
MatchPlayers == {"A", "B"}

\* A match the host has started with a second player, both clients in step
\* with the store: the host's createRoom, a joinRoom, startGame, and every
\* change event delivered.  n operations may still be called.
GameInitFor(rows, n) ==
    LET r == [id |-> "r1", status |-> "playing", host_id |-> HostUser,
              max_players |-> DefaultMaxPlayers]
        g == [room_id |-> "r1", current_turn |-> HostUser, current_question |-> "q1",
              round |-> 1, time_left |-> TurnSeconds]
        in(c) == \E i \in 1..Len(rows): rows[i].player_id = c
    IN /\ dbRooms = [x \in Rooms |-> IF x = "r1" THEN r ELSE NullRoom]
       /\ dbPlayers = rows
       /\ dbGame = [x \in Rooms |-> IF x = "r1" THEN g ELSE NullGame]
       /\ nextId = Len(rows) + 1
       /\ room = [c \in Users |-> IF in(c) THEN r ELSE NullRoom]
       /\ players = [c \in Users |-> IF in(c) THEN MappedPlayers(rows) ELSE <<>>]
       /\ gameState = [c \in Users |-> IF in(c) THEN g ELSE NullGame]
       /\ loading = [c \in Users |-> FALSE]
       /\ error = [c \in Users |-> NoError]
       /\ roomChannel = [c \in Users |-> IF in(c) THEN "r1" ELSE "null"]
       /\ gameChannel = [c \in Users |-> IF in(c) THEN "r1" ELSE "null"]
       /\ op = [c \in Users |-> IdleOp]
       /\ roomQ = [c \in Users |-> <<>>]
       /\ gameQ = [c \in Users |-> <<>>]
       /\ insPend = [c \in Users |-> {}]
       /\ lms = [c \in Users |-> "null"]
       /\ rec = [c \in Users |-> NoRec]
       /\ plFetch = [c \in Users |-> NoFetch]
       /\ ops = n
       /\ interstitial = [c \in Users |-> NoInterstitial]

GameInitWith(n) ==
    GameInitFor(<<NewRow(1, "r1", "A"), NewRow(2, "r1", "B")>>, n)

GameInit == GameInitWith(GameOps)

NextGame ==
    \E c \in Users:
        \/ \E b \in BOOLEAN, nq \in {"q2", NoQuestion}: SubmitAnswer(c, b, nq)
        \/ SubmitRotate(c)
        \/ \E ok \in BOOLEAN: RefreshPlayers(c, ok)
        \/ RefreshApply(c)
        \/ \E ok \in BOOLEAN: LeaveRoom(c, ok)
        \/ LeaveClear(c)
        \/ DeliverRoom(c)
        \/ DeliverGame(c)
        \/ \E ok \in BOOLEAN: FinishWrite(c, ok)

SpecGame == GameInit /\ [][NextGame]_vars

\* A match of three players answering in turn; the roster does not change and
\* the clients follow the TurnState feed.
TurnInit ==
    GameInitFor(<<NewRow(1, "r1", "A"), NewRow(2, "r1", "B"), NewRow(3, "r1", "C")>>,
                TurnOps)

NextTurn ==
    \E c \in Users:
        \/ \E b \in BOOLEAN, nq \in Questions: SubmitAnswer(c, b, nq)
        \/ SubmitRotate(c)
        \/ DeliverGame(c)

SpecTurn == TurnInit /\ [][NextTurn]_vars

\* A store without rooms and clients that have just loaded the page: rooms
\* are created and joined.
CreateInit ==
    /\ dbRooms = [x \in Rooms |-> NullRoom]
    /\ dbPlayers = <<>>
    /\ dbGame = [x \in Rooms |-> NullGame]
    /\ nextId = 1
    /\ room = [c \in Users |-> NullRoom]
    /\ players = [c \in Users |-> <<>>]
    /\ gameState = [c \in Users |-> NullGame]
    /\ loading = [c \in Users |-> FALSE]
    /\ error = [c \in Users |-> NoError]
    /\ roomChannel = [c \in Users |-> "null"]
    /\ gameChannel = [c \in Users |-> "null"]
    /\ op = [c \in Users |-> IdleOp]
    /\ roomQ = [c \in Users |-> <<>>]
    /\ gameQ = [c \in Users |-> <<>>]
    /\ insPend = [c \in Users |-> {}]
    /\ lms = [c \in Users |-> "null"]
    /\ rec = [c \in Users |-> NoRec]
    /\ plFetch = [c \in Users |-> NoFetch]
    /\ ops = CreateOps
    /\ interstitial = [c \in Users |-> NoInterstitial]

NextCreate ==
    \E c \in Users:
        \/ CreateRoom(c)
        \/ \E ok \in BOOLEAN: CreateInsert(c, ok)
        \/ \E ok \in BOOLEAN: CreatePlayer(c, ok)
        \/ \E ok \in BOOLEAN: CreateFetch(c, ok)
        \/ CreateApply(c)
        \/ \E code \in Codes: JoinRoom(c, code)
        \/ JoinNotFound(c)
        \/ JoinCheckExisting(c)
        \/ JoinUpdateReady(c, TRUE)
        \/ JoinCount(c)
        \/ \E ok \in BOOLEAN: JoinInsert(c, ok)
        \/ \E ok \in BOOLEAN: JoinFetch(c, ok)
        \/ JoinApply(c)
        \/ DeliverRoom(c)
        \/ InsertDone(c, TRUE)

SpecCreate == CreateInit /\ [][NextCreate]_vars

\* Progress in the lobby: the host starts the match while others join, the
\* store accepting every write.  Every request in flight is answered and
\* every change event in a feed is delivered; calls are free.
Answered(c) ==
    \/ JoinNotFound(c)
    \/ JoinCheckExisting(c)
    \/ JoinUpdateReady(c, TRUE)
    \/ JoinCount(c)
    \/ JoinInsert(c, TRUE)
    \/ JoinFetch(c, TRUE)
    \/ JoinApply(c)
    \/ StartInsert(c, TRUE)
    \/ FinishWrite(c, TRUE)
    \/ RecoveryRead(c)
    \/ RecoveryApply(c)

Delivered(c) == DeliverRoom(c) \/ InsertDone(c, TRUE) \/ DeliverGame(c)

NextRecover ==
    \E c \in Users:
        \/ \E code \in Codes: JoinRoom(c, code)
        \/ \E q \in Questions: StartGame(c, q, TRUE)
        \/ Answered(c)
        \/ Delivered(c)

SpecRecover ==
    /\ Init
    /\ [][NextRecover]_vars
    /\ \A c \in Users: WF_vars(Answered(c)) /\ WF_vars(Delivered(c))

\* The lobby with a store that answers every request: the host holds its
\* roster, players join and leave, and the roster channel delivers.
RosterInit == Init /\ players[HostUser] # <<>>

NextRoster ==
    \E c \in Users:
        \/ JoinRoom(c, "r1")
        \/ JoinCheckExisting(c)
        \/ JoinUpdateReady(c, TRUE)
        \/ JoinCount(c)
        \/ JoinInsert(c, TRUE)
        \/ JoinFetch(c, TRUE)
        \/ JoinApply(c)
        \/ LeaveRoom(c, TRUE)
        \/ LeaveClear(c)
        \/ DeliverRoom(c)
        \/ \E found \in BOOLEAN: InsertDone(c, found)
        \/ ToggleReady(c, TRUE)
        \/ RefreshPlayers(c, TRUE)
        \/ RefreshApply(c)

SpecRoster == RosterInit /\ [][NextRoster]_vars

\* The same match while only the host's client takes steps (the other client
\* is idle and its events wait in its feed).
SoloInit == GameInitWith(SoloOps)

NextSolo ==
    \/ \E b \in BOOLEAN, nq \in {"q2", NoQuestion}: SubmitAnswer(HostUser, b, nq)
    \/ SubmitRotate(HostUser)
    \/ \E ok \in BOOLEAN: RefreshPlayers(HostUser, ok)
    \/ RefreshApply(HostUser)
    \/ \E ok \in BOOLEAN: LeaveRoom(HostUser, ok)
    \/ LeaveClear(HostUser)
    \/ DeliverRoom(HostUser)
    \/ DeliverGame(HostUser)
    \/ \E ok \in BOOLEAN: FinishWrite(HostUser, ok)

SpecSolo == SoloInit /\ [][NextSolo]_vars

\* Progress: players surrender (leaveRoom) while the store accepts every
\* write.  A request in flight is answered, a continuation runs and a change
\* event in a feed is delivered; whether a user calls an operation is free.
LiveInit == GameInitWith(LiveOps)

NextLive ==
    \E c \in MatchPlayers:
        \/ LeaveRoom(c, TRUE)
        \/ LeaveClear(c)
        \/ DeliverRoom(c)
        \/ FinishWrite(c, TRUE)

SpecLive ==
    /\ LiveInit
    /\ [][NextLive]_vars
    /\ \A c \in MatchPlayers:
          /\ WF_vars(LeaveClear(c))
          /\ WF_vars(DeliverRoom(c))
          /\ WF_vars(FinishWrite(c, TRUE))

\* A match of two players who answer only through the game screen.
ScreenInit == GameInitWith(ScreenOps)

NextScreen ==
    \E c \in Users:
        \/ \E b \in BOOLEAN, nq \in {"q2", NoQuestion}: HandleGuess(c, b, nq)
        \/ SubmitRotate(c)
        \/ DeliverRoom(c)
        \/ DeliverGame(c)
        \/ Countdown(c)

SpecScreen == ScreenInit /\ [][NextScreen]_vars

\* A match of three players in which participants leave while the others
\* keep answering.
AbsentInit ==
    GameInitFor(<<NewRow(1, "r1", "A"), NewRow(2, "r1", "B"), NewRow(3, "r1", "C")>>,
                AbsentOps)

NextAbsent ==
    \E c \in Users:
        \/ LeaveRoom(c, TRUE)
        \/ LeaveClear(c)
        \/ \E b \in BOOLEAN, nq \in {"q2", NoQuestion}: SubmitAnswer(c, b, nq)
        \/ SubmitRotate(c)
        \/ DeliverRoom(c)
        \/ DeliverGame(c)
        \/ FinishWrite(c, TRUE)

SpecAbsent == AbsentInit /\ [][NextAbsent]_vars

\* Two lobbies: A has created r1 and B has created r2, each holds its room,
\* its roster and both subscriptions; C has just loaded the page.  Clients
\* join either room, also while they are in the other one; the store accepts
\* every write and answers every fetch.
SwitchInit ==
    LET ra == CreatedRoom("r1", "A")
        rb == CreatedRoom("r2", "B")
        rowa == NewRow(1, "r1", "A")
        rowb == NewRow(2, "r2", "B")
        at(c) == IF c = "A" THEN "r1" ELSE IF c = "B" THEN "r2" ELSE "null"
    IN /\ dbRooms = [x \in Rooms |-> IF x = "r1" THEN ra ELSE rb]
       /\ dbPlayers = <<rowa, rowb>>
       /\ dbGame = [x \in Rooms |-> NullGame]
       /\ nextId = 3
       /\ room = [c \in Users |-> IF c = "A" THEN ra ELSE IF c = "B" THEN rb ELSE NullRoom]
       /\ players = [c \in Users |-> IF c = "A" THEN <<MappedPlayer(rowa)>>
                                     ELSE IF c = "B" THEN <<MappedPlayer(rowb)>>
                                     ELSE <<>>]
       /\ gameState = [c \in Users |-> NullGame]
       /\ loading = [c \in Users |-> FALSE]
       /\ error = [c \in Users |-> NoError]
       /\ roomChannel = [c \in Users |-> at(c)]
       /\ gameChannel = [c \in Users |-> at(c)]
       /\ op = [c \in Users |-> IdleOp]
       /\ roomQ = [c \in Users |-> <<>>]
       /\ gameQ = [c \in Users |-> <<>>]
       /\ insPend = [c \in Users |-> {}]
       /\ lms = [c \in Users |-> "null"]
       /\ rec = [c \in Users |-> NoRec]
       /\ plFetch = [c \in Users |-> NoFetch]
       /\ ops = SwitchOps
       /\ interstitial = [c \in Users |-> NoInterstitial]

NextSwitch ==
    \E c \in Users:
        \/ \E code \in Rooms: JoinRoom(c, code)
        \/ JoinCheckExisting(c)
        \/ JoinUpdateReady(c, TRUE)
        \/ JoinCount(c)
        \/ JoinInsert(c, TRUE)
        \/ JoinFetch(c, TRUE)
        \/ JoinApply(c)
        \/ ToggleReady(c, TRUE)
        \/ DeliverRoom(c)
        \/ InsertDone(c, TRUE)

SpecSwitch == SwitchInit /\ [][NextSwitch]_vars

\* The lobby of r1 with the host A and a second participant B, both ready and
\* in step with the store; participants leave and start calls are made.  The
\* store accepts every write.
HostlessInit ==
    LET r == CreatedRoom("r1", HostUser)
        rows == <<NewRow(1, "r1", "A"), NewRow(2, "r1", "B")>>
        in(c) == c \in MatchPlayers
    IN /\ dbRooms = [x \in Rooms |-> IF x = "r1" THEN r ELSE NullRoom]
       /\ dbPlayers = rows
       /\ dbGame = [x \in Rooms |-> NullGame]
       /\ nextId = 3
       /\ room = [c \in Users |-> IF in(c) THEN r ELSE NullRoom]
       /\ players = [c \in Users |-> IF in(c) THEN MappedPlayers(rows) ELSE <<>>]
       /\ gameState = [c \in Users |-> NullGame]
       /\ loading = [c \in Users |-> FALSE]
       /\ error = [c \in Users |-> NoError]
       /\ roomChannel = [c \in Users |-> IF in(c) THEN "r1" ELSE "null"]
       /\ gameChannel = [c \in Users |-> IF in(c) THEN "r1" ELSE "null"]
       /\ op = [c \in Users |-> IdleOp]
       /\ roomQ = [c \in Users |-> <<>>]
       /\ gameQ = [c \in Users |-> <<>>]
       /\ insPend = [c \in Users |-> {}]
       /\ lms = [c \in Users |-> "null"]
       /\ rec = [c \in Users |-> NoRec]
       /\ plFetch = [c \in Users |-> NoFetch]
       /\ ops = HostlessOps
       /\ interstitial = [c \in Users |-> NoInterstitial]

NextHostless ==
    \E c \in Users:
        \/ LeaveRoom(c, TRUE)
        \/ LeaveClear(c)
        \/ \E q \in Questions: StartGame(c, q, TRUE)
        \/ StartInsert(c, TRUE)
        \/ DeliverRoom(c)
        \/ DeliverGame(c)
        \/ FinishWrite(c, TRUE)
        \/ RecoveryRead(c)
        \/ RecoveryApply(c)

SpecHostless == HostlessInit /\ [][NextHostless]_vars

\* The same lobby, with start calls made only through the lobby screen while
\* participants toggle ready and leave.
NextLobby ==
    \E c \in Users:
        \/ \E q \in Questions: LobbyStart(c, q, TRUE)
        \/ StartInsert(c, TRUE)
        \/ ToggleReady(c, TRUE)
        \/ LeaveRoom(c, TRUE)
        \/ LeaveClear(c)
        \/ DeliverRoom(c)
        \/ DeliverGame(c)

SpecLobby == HostlessInit /\ [][NextLobby]_vars

(* ============================== claims ================================ *)

TheRoom == "r1"

(* C1: the number of room_players rows of a room never exceeds the room's
   max_players, whatever joins and leaves the clients interleave. *)
C1_RosterWithinCapacity ==
    \A rid \in Rooms: Len(RowsOf(rid)) <= dbRooms[rid].max_players

\* A join and its rejoin: the step that takes the rejoin branch of joinRoom.
RejoinStep(c) == op[c].step = "j_exists" /\ op'[c].step # "j_exists"

(* C2: a participant never has two rows in a room, and the rejoin branch of a
   second join only sets the caller's is_ready to true (or changes nothing,
   when the store rejects the update): no row is added or removed, score and
   lives of the caller's row and every other row stay. *)
C2_RejoinIdempotent ==
    /\ [](\A rid \in Rooms, u \in Users: Len(RowsOfPlayer(rid, u)) <= 1)
    /\ [][\A c \in Users:
            RejoinStep(c) =>
              /\ Len(dbPlayers') = Len(dbPlayers)
              /\ \A i \in 1..Len(dbPlayers):
                    IF dbPlayers[i].player_id = c
                    THEN \/ dbPlayers'[i] = [dbPlayers[i] EXCEPT !.is_ready = TRUE]
                         \/ dbPlayers'[i] = dbPlayers[i] /\ JoinUpdateReady(c, FALSE)
                    ELSE dbPlayers'[i] = dbPlayers[i]]_vars

\* The host toggled ready off and then joined its own room again: the feed
\* carries the update to false and then the rejoin's update to true.
C2_Witness ==
    /\ op[HostUser].step = "j_fetch"
    /\ nextId = 2
    /\ Len(roomQ[HostUser]) = 2
    /\ roomQ[HostUser][1].row.is_ready = FALSE
    /\ roomQ[HostUser][2].row.is_ready = TRUE
    /\ dbPlayers[1].is_ready = TRUE

\* A start call that the claim says must fail: the caller's roster is empty,
\* the caller is not the host, or some entry is not ready.
StartMustFail(c) ==
    \/ players[c] = <<>>
    \/ room[c].host_id # c
    \/ \E i \in 1..Len(players[c]): ~players[c][i].is_ready

(* C3: a start call whose roster is empty, whose caller is not the host or
   with an entry that is not ready writes neither Room.status nor a
   TurnState. *)
C3_StartPrecondition ==
    [][\A c \in Users, q \in Questions, ok \in BOOLEAN:
         (StartGame(c, q, ok) /\ StartMustFail(c))
            => (dbRooms' = dbRooms /\ dbGame' = dbGame /\ op'[c].step = "idle")]_vars

(* C4: a start call by the host with a non-empty, all-ready roster whose
   writes succeed sets Room.status to playing and then creates the TurnState
   with current_turn = host, round = 1, time_left = 30 and the question
   supplied to the call. *)
C4_StartEffects ==
    [][\A c \in Users:
         /\ \A q \in Questions:
               (StartGame(c, q, TRUE) /\ ~StartMustFail(c))
                  => /\ dbRooms'[room[c].id].status = "playing"
                     /\ op'[c].step = "s_insert"
                     /\ op'[c].q = q
         /\ (StartInsert(c, TRUE) /\ dbGame[op[c].found.id] = NullGame)
               => dbGame'[op[c].found.id] =
                    [room_id |-> op[c].found.id,
                     current_turn |-> dbRooms[op[c].found.id].host_id,
                     current_question |-> op[c].q,
                     round |-> 1, time_left |-> 30]]_vars

\* The match has been started: the room is playing and its TurnState exists.
C4_Witness ==
    /\ dbRooms[TheRoom].status = "playing"
    /\ dbGame[TheRoom] # NullGame
    /\ dbGame[TheRoom].current_turn = HostUser

\* 1-based position of the participant u in the roster ps, 0 when absent.
PositionOf(ps, u) ==
    IF \E i \in 1..Len(ps): ps[i].player_id = u
    THEN CHOOSE i \in 1..Len(ps):
           ps[i].player_id = u /\ \A j \in 1..(i-1): ps[j].player_id # u
    ELSE 0

(* C5: submitAnswer with a next question hands the turn to the roster entry
   after the current_turn participant (index + 1 mod roster length, on the
   roster and TurnState the caller holds), replaces the question, resets
   time_left to 30 and adds one to round exactly when the next index is 0. *)
C5_TurnRotation ==
    [][\A c \in Users:
         /\ \A b \in BOOLEAN, nq \in Questions:
               SubmitAnswer(c, b, nq) =>
                 LET ps == players[c]
                     nxt == (PositionOf(ps, gameState[c].current_turn) % Len(ps)) + 1
                 IN /\ op'[c].step = "a_rotate"
                    /\ op'[c].turn = ps[nxt].player_id
                    /\ op'[c].q = nq
                    /\ op'[c].round = gameState[c].round + (IF nxt = 1 THEN 1 ELSE 0)
         /\ (SubmitRotate(c) /\ dbGame[op[c].found.id] # NullGame) =>
               /\ dbGame'[op[c].found.id].current_turn = op[c].turn
               /\ dbGame'[op[c].found.id].current_question = op[c].q
               /\ dbGame'[op[c].found.id].round = op[c].round
               /\ dbGame'[op[c].found.id].time_left = 30]_vars

\* The turn has gone round the roster [A, B, C] once, A -> B -> C -> A, in
\* three calls: the turn is back at A and round has grown from 1 to 2.
C5_Witness ==
    /\ Len(RowsOf(TheRoom)) = 3
    /\ dbGame[TheRoom].current_turn = "A"
    /\ dbGame[TheRoom].round = 2
    /\ ops = 0
    /\ \A c \in Users: gameQ[c] = <<>> /\ gameState[c] = dbGame[TheRoom]

(* C6: the persisted score of a PlayerEntry never decreases and its persisted
   lives never increase. *)
C6_ScoreLivesMonotonic ==
    [][\A i \in 1..Len(dbPlayers), j \in 1..Len(dbPlayers'):
         dbPlayers[i].id = dbPlayers'[j].id =>
           /\ dbPlayers'[j].score >= dbPlayers[i].score
           /\ dbPlayers'[j].lives <= dbPlayers[i].lives]_vars

DbStatus == dbRooms[TheRoom].status

(* C7: whenever the room is playing and its roster has exactly one entry, the
   room eventually becomes finished. *)
C7_LastStandingFinishes ==
    [](DbStatus = "playing" /\ Len(RowsOf(TheRoom)) = 1 => <>(DbStatus = "finished"))

\* The host's client observes the last-standing condition.
HostObserves ==
    /\ room[HostUser].status = "playing"
    /\ room[HostUser].host_id = HostUser
    /\ Len(players[HostUser]) = 1
    /\ ~loading[HostUser]

(* C7 (amended): whenever the room is playing and the host's client, which
   holds the room, observes a roster of exactly one entry, the room
   eventually becomes finished (the store accepting the write). *)
C7_HostObservedFinishes ==
    [](DbStatus = "playing" /\ HostObserves => <>(DbStatus = "finished"))

\* The other player has surrendered, the host has seen its roster shrink to
\* one entry and the room is finished.
C7_Witness ==
    /\ DbStatus = "finished"
    /\ Len(RowsOf(TheRoom)) = 1
    /\ Len(players[HostUser]) = 1
    /\ lms[HostUser] = "null"

\* A client observes the last-standing condition.
Observes(c) ==
    room[c].status = "playing" /\ Len(players[c]) = 1 /\ ~loading[c]

(* C8: the write that sets Room.status to finished is issued by the host's
   client only: a last-standing write in flight belongs to the room's host, no
   two clients have one in flight, and status becomes finished only by the
   host's write. *)
C8_SingleWriter ==
    /\ [](\A c \in Users: lms[c] # "null" => c = dbRooms[lms[c]].host_id)
    /\ [](Cardinality({c \in Users: lms[c] # "null"}) <= 1)
    /\ [][\A rid \in Rooms:
            (dbRooms'[rid].status = "finished" /\ dbRooms[rid].status # "finished")
               => /\ lms[dbRooms[rid].host_id] = rid
                  /\ lms'[dbRooms[rid].host_id] = "null"]_vars

\* Two clients observe the condition at once, and the one write in flight is
\* the host's.
C8_Witness ==
    /\ \A c \in MatchPlayers: Observes(c)
    /\ lms[HostUser] = TheRoom
    /\ \A c \in Users \ {HostUser}: lms[c] = "null"

\* The step in which the rotation of c's submitAnswer reaches the store, c not
\* being the persisted current_turn holder.
WrongTurnRotate(c) ==
    /\ SubmitRotate(c)
    /\ dbGame[op[c].found.id] # NullGame
    /\ dbGame[op[c].found.id].current_turn # c

(* C9: a submitAnswer by a participant who is not the current_turn holder,
   whatever its arguments, leaves TurnState.current_turn unchanged. *)
C9_WrongTurnNoRotation ==
    [][\A c \in Users:
         WrongTurnRotate(c) =>
           dbGame'[op[c].found.id].current_turn = dbGame[op[c].found.id].current_turn]_vars

\* What a submitAnswer call writes to room_players: the caller's row gets
\* score = local score + 1 (correct) or lives = local lives - 1 (incorrect),
\* every other row and field stays.
WritesOwnRowOnly(c, b) ==
    /\ Len(dbPlayers') = Len(dbPlayers)
    /\ \A i \in 1..Len(dbPlayers):
          IF dbPlayers[i].player_id = c
          THEN /\ dbPlayers'[i].score =
                    (IF b THEN FindMe(players[c], c).score + 1 ELSE dbPlayers[i].score)
               /\ dbPlayers'[i].lives =
                    (IF b THEN dbPlayers[i].lives ELSE FindMe(players[c], c).lives - 1)
               /\ dbPlayers'[i].is_ready = dbPlayers[i].is_ready
               /\ dbPlayers'[i].id = dbPlayers[i].id
          ELSE dbPlayers'[i] = dbPlayers[i]

(* C9 (amended): a submitAnswer by a participant who is not the current_turn
   holder writes the caller's own score or lives and nothing else of the
   roster; without a next question it leaves the TurnState unchanged and
   issues no rotation; with a next question it issues the same rotation as a
   call by the holder, which then sets current_turn to the successor the
   caller computed. *)
C9_WrongTurnSubmit ==
    [][\A c \in Users:
         /\ \A b \in BOOLEAN, nq \in Questions \cup {NoQuestion}:
               (SubmitAnswer(c, b, nq) /\ dbGame[room[c].id].current_turn # c) =>
                 /\ WritesOwnRowOnly(c, b)
                 /\ dbGame' = dbGame
                 /\ (nq = NoQuestion => op'[c].step = "idle")
                 /\ (nq # NoQuestion => op'[c].step = "a_rotate")
         /\ WrongTurnRotate(c) =>
               dbGame'[op[c].found.id].current_turn = op[c].turn]_vars

\* B, who does not hold the turn, has answered correctly with a next question
\* in the only call made so far: its score is written, A's row is as it was,
\* and the turn has gone from A to B with the new question.
C9_Witness ==
    /\ ops = GameOps - 1
    /\ \E i \in 1..Len(dbPlayers): dbPlayers[i].player_id = "B" /\ dbPlayers[i].score = 1
    /\ \E i \in 1..Len(dbPlayers): dbPlayers[i] = NewRow(1, TheRoom, "A")
    /\ dbGame[TheRoom].current_turn = "B"
    /\ dbGame[TheRoom].current_question = "q2"
    /\ op["B"].step = "idle"

StatusRank(st) == IF st = "waiting" THEN 0 ELSE IF st = "playing" THEN 1 ELSE 2

(* C10: Room.status only moves waiting -> playing -> finished and never
   back. *)
C10_StatusMonotonic ==
    [][\A rid \in Rooms:
         StatusRank(dbRooms'[rid].status) >= StatusRank(dbRooms[rid].status)]_vars

\* The step in which c's startGame sends its insert into game_state.
InsertsTurnState(c) == \E ok \in BOOLEAN: StartInsert(c, ok)

(* C11: a room's TurnState is created exactly once: startGame sends an insert
   into game_state only for a room that has no TurnState, also when the host
   starts again, and an existing TurnState changes only by the replacement
   a turn advance writes (participant, question, round, time_left 30). *)
C11_TurnStateCreatedOnce ==
    [][/\ \A c \in Users:
            InsertsTurnState(c) => dbGame[op[c].found.id] = NullGame
       /\ \A rid \in Rooms:
            (dbGame[rid] # NullGame /\ dbGame'[rid] # dbGame[rid]) =>
              \E c \in Users:
                /\ SubmitRotate(c)
                /\ dbGame'[rid] = [room_id |-> rid, current_turn |-> op[c].turn,
                                   current_question |-> op[c].q, round |-> op[c].round,
                                   time_left |-> TurnSeconds]]_vars

(* C12: whenever a room has a TurnState, its current_turn is the player_id of
   a row of the room's persisted roster. *)
C12_CurrentTurnInRoster ==
    \A rid \in Rooms:
        dbGame[rid] # NullGame =>
          \E i \in 1..Len(RowsOf(rid)): RowsOf(rid)[i].player_id = dbGame[rid].current_turn

(* C13: the persisted round of a room's TurnState never decreases. *)
C13_RoundMonotonic ==
    [][\A rid \in Rooms:
         (dbGame[rid] # NullGame /\ dbGame'[rid] # NullGame) =>
           dbGame'[rid].round >= dbGame[rid].round]_vars

\* A startGame of the room is between its two writes (status written, the
\* game_state insert not yet answered).
StartInFlight(rid) ==
    \E c \in Users: op[c].step = "s_insert" /\ op[c].found.id = rid

(* C14: a playing room has a TurnState and a waiting room has none, in every
   state in which no startGame of the room is between its two writes. *)
C14_StatusMatchesTurnState ==
    \A rid \in Rooms:
        /\ (dbRooms[rid].status = "playing" /\ ~StartInFlight(rid)) => dbGame[rid] # NullGame
        /\ dbRooms[rid].status = "waiting" => dbGame[rid] = NullGame

\* What a join that finds no room must leave alone: the store, the caller's
\* room, roster and TurnState, and its subscriptions.
JoinLeavesAlone(c) ==
    /\ UNCHANGED dbVars
    /\ room'[c] = room[c] /\ players'[c] = players[c] /\ gameState'[c] = gameState[c]
    /\ roomChannel'[c] = roomChannel[c] /\ gameChannel'[c] = gameChannel[c]

(* C15: joinRoom with a code that matches no room fails with 'Room not
   found': neither its lookup nor its failure inserts a row, opens a
   subscription or changes the caller's room, roster or TurnState, and the
   failure sets the error and ends the call. *)
C15_JoinNotFound ==
    [][\A c \in Users:
         /\ \A code \in Codes \ Rooms:
               JoinRoom(c, code) => JoinLeavesAlone(c) /\ op'[c].found = NullRoom
         /\ (op[c].step = "j_lookup" /\ op[c].found = NullRoom /\ op'[c] # op[c]) =>
               /\ JoinLeavesAlone(c)
               /\ error'[c] = "Room not found"
               /\ ~loading'[c]
               /\ op'[c] = IdleOp]_vars

\* The host, holding its room and its subscriptions, has typed a wrong code:
\* the join has failed and the host's view is the one it had.
C15_Witness ==
    /\ error[HostUser] = "Room not found"
    /\ op[HostUser].step = "idle"
    /\ room[HostUser] = dbRooms[TheRoom]
    /\ Len(players[HostUser]) = 1
    /\ roomChannel[HostUser] = TheRoom
    /\ gameChannel[HostUser] = TheRoom
    /\ Len(dbPlayers) = 1

(* C16: a joinRoom by an identity without a row in the room fails with 'Room
   is full' and inserts nothing when the room's row count has reached its
   capacity, and otherwise inserts one row for the caller with is_ready true:
   a join that counts a full room fails, and a join inserts its row only into
   a room whose row count is below the capacity. *)
C16_JoinNewPlayer ==
    [][\A c \in Users:
         LET rid == op[c].found.id
             full == Len(RowsOf(rid)) >= CapacityOf(op[c].found)
         IN /\ (op[c].step = "j_new" /\ op'[c] # op[c] /\ full) =>
                  /\ error'[c] = "Room is full"
                  /\ op'[c] = IdleOp
                  /\ UNCHANGED dbVars
            /\ (op[c].step = "j_new" /\ op'[c] # op[c] /\ ~full) =>
                  op'[c].step = "j_insert"
            /\ JoinInsert(c, TRUE) =>
                  /\ ~full
                  /\ dbPlayers' = Append(dbPlayers, NewRow(nextId, rid, c))]_vars

\* The rows the store holds for a room created by u: the room, waiting and
\* hosted by u, and u's roster row with is_ready true.
CreatedFor(rid, u) ==
    /\ dbRooms'[rid].status = "waiting"
    /\ dbRooms'[rid].host_id = u
    /\ \E i \in 1..Len(dbPlayers'):
          /\ dbPlayers'[i].room_id = rid
          /\ dbPlayers'[i].player_id = u
          /\ dbPlayers'[i].is_ready

(* C17: createRoom persists a room with status waiting and the creator as
   host, inserts the creator's roster row with is_ready true and returns the
   room's code; when the store rejects the room insert or the roster insert
   the call returns null, sets the error, sends no further request and does
   not set the local room. *)
C17_CreateRoom ==
    [][\A c \in Users:
         /\ CreateInsert(c, TRUE) =>
               \E rid \in Rooms:
                 /\ dbRooms[rid] = NullRoom
                 /\ dbRooms'[rid].status = "waiting" /\ dbRooms'[rid].host_id = c
                 /\ op'[c].found = dbRooms'[rid]
                 /\ dbPlayers' = dbPlayers
         /\ CreatePlayer(c, TRUE) =>
               /\ Len(dbPlayers') = Len(dbPlayers) + 1
               /\ CreatedFor(op[c].found.id, c)
               /\ room'[c] = op[c].found
         /\ CreateApply(c) =>
               /\ op'[c].step = "idle"
               /\ op'[c].ret = room[c].id
               /\ CreatedFor(op'[c].ret, c)
         /\ (CreateInsert(c, FALSE) \/ CreatePlayer(c, FALSE)) =>
               /\ op'[c].step = "idle"
               /\ op'[c].ret = "null"
               /\ error'[c] # NoError
               /\ room'[c] = room[c]
               /\ UNCHANGED dbVars]_vars

\* A has created room r1: the call has returned the code, A holds the room and
\* its own ready row, and is subscribed.
C17_Witness ==
    /\ op["A"].step = "idle"
    /\ op["A"].ret = TheRoom
    /\ dbRooms[TheRoom].status = "waiting"
    /\ dbRooms[TheRoom].host_id = "A"
    /\ room["A"] = dbRooms[TheRoom]
    /\ players["A"] = <<MappedPlayer(NewRow(1, TheRoom, "A"))>>
    /\ dbPlayers = <<NewRow(1, TheRoom, "A")>>
    /\ roomChannel["A"] = TheRoom
    /\ error["A"] = NoError

(* C18: when leaveRoom completes, the caller has no row in the persisted
   roster of the room it left, both of its channels are released and its
   local view is empty (no room, empty roster, no TurnState). *)
C18_LeaveCompletes ==
    [][\A c \in Users:
         LeaveClear(c) =>
           /\ RowsOfPlayer(room[c].id, c) = <<>>
           /\ roomChannel'[c] = "null" /\ gameChannel'[c] = "null"
           /\ room'[c] = NullRoom /\ players'[c] = <<>> /\ gameState'[c] = NullGame]_vars

\* The client's local room is playing and it holds no TurnState.
Lost(c) == room[c].status = "playing" /\ gameState[c] = NullGame

\* The client holds the TurnState the store has for its room.
HoldsTurnState(c) ==
    /\ room[c] # NullRoom
    /\ gameState[c] # NullGame
    /\ gameState[c] = dbGame[room[c].id]

(* C19: a client whose local room is playing while it holds no TurnState
   eventually holds the room's current TurnState (or its room stops being
   playing), no further turn advance being needed. *)
C19_Recovery ==
    \A c \in Users:
        [](Lost(c) => <>(HoldsTurnState(c) \/ room[c].status # "playing"))

(* C20: submitAnswer without a next question does not advance the turn: it
   writes the caller's score (correct) or lives (incorrect) and nothing else;
   current_turn, current_question, round and time_left of the TurnState stay,
   in the store and in the caller's view, and no rotation is sent. *)
C20_NoQuestionNoAdvance ==
    [][\A c \in Users, b \in BOOLEAN:
         SubmitAnswer(c, b, NoQuestion) =>
           /\ dbGame' = dbGame /\ gameState' = gameState /\ gameQ' = gameQ
           /\ dbRooms' = dbRooms
           /\ op'[c].step = "idle"
           /\ Len(dbPlayers') = Len(dbPlayers)
           /\ \A i \in 1..Len(dbPlayers):
                 /\ dbPlayers[i].player_id # c => dbPlayers'[i] = dbPlayers[i]
                 /\ b => dbPlayers'[i].lives = dbPlayers[i].lives
                 /\ ~b => dbPlayers'[i].score = dbPlayers[i].score
                 /\ dbPlayers'[i].is_ready = dbPlayers[i].is_ready]_vars

\* A, holding the turn, has answered wrongly without a next question in the
\* only call made so far: A has lost a life and the TurnState is the initial one.
C20_Witness ==
    /\ ops = GameOps - 1
    /\ \E i \in 1..Len(dbPlayers):
          /\ dbPlayers[i].player_id = "A"
          /\ dbPlayers[i].lives = InitialLives - 1
          /\ dbPlayers[i].score = 0
    /\ op["A"].step = "idle"
    /\ dbGame[TheRoom].current_turn = "A"
    /\ dbGame[TheRoom].current_question = "q1"
    /\ dbGame[TheRoom].round = 1
    /\ dbGame[TheRoom].time_left = TurnSeconds

(* C21: a start call whose caller is not the host, whose roster has an entry
   that is not ready or whose roster is empty leaves the caller's error
   string set. *)
C21_StartFailureSurfaced ==
    [][\A c \in Users, q \in Questions, ok \in BOOLEAN:
         (StartGame(c, q, ok) /\ StartMustFail(c)) => error'[c] # NoError]_vars

(* C22: once a room is finished its TurnState is inert: no step changes
   current_turn, current_question, round or time_left. *)
C22_FinishedInert ==
    [][\A rid \in Rooms:
         dbRooms[rid].status = "finished" => dbGame'[rid] = dbGame[rid]]_vars

(* C23: a participant whose persisted lives are zero is eliminated: no step
   changes the score or lives of its row any more, and no step makes it the
   current_turn of its room. *)
C23_ZeroLivesEliminated ==
    [][\A i \in 1..Len(dbPlayers):
         dbPlayers[i].lives = 0 =>
           /\ \A j \in 1..Len(dbPlayers'):
                 dbPlayers'[j].id = dbPlayers[i].id =>
                   /\ dbPlayers'[j].score = dbPlayers[i].score
                   /\ dbPlayers'[j].lives = dbPlayers[i].lives
           /\ dbGame'[dbPlayers[i].room_id].current_turn = dbPlayers[i].player_id
                 => dbGame[dbPlayers[i].room_id].current_turn = dbPlayers[i].player_id]_vars

(* C24: Room.status is set to playing only in a state in which every
   persisted roster row of the room has is_ready true. *)
C24_AllReadyAtStart ==
    [][\A rid \in Rooms:
         (dbRooms'[rid].status = "playing" /\ dbRooms[rid].status # "playing") =>
           \A i \in 1..Len(RowsOf(rid)): RowsOf(rid)[i].is_ready]_vars

\* The client is in a room, subscribed to its roster channel, and nothing of
\* its own is pending: no operation, no undelivered roster event, no INSERT
\* handler waiting for its profile lookup, no players fetch.
Quiet(c) ==
    /\ room[c] # NullRoom
    /\ roomChannel[c] = room[c].id
    /\ op[c].step = "idle"
    /\ roomQ[c] = <<>>
    /\ insPend[c] = {}
    /\ plFetch[c] = NoFetch

RowIds(ps) == {ps[i].id : i \in 1..Len(ps)}

(* C25: for a client in a room, once every roster change event has been
   delivered and every handler has finished, the row identifiers of its local
   roster are those of the room's persisted roster. *)
C25_RosterConverges ==
    \A c \in Users:
        Quiet(c) => RowIds(players[c]) = RowIds(RowsOf(room[c].id))

(* C26: a client that is in no room and has no createRoom or joinRoom under
   way has an empty local view: after leaveRoom has completed nothing adds a
   roster entry or sets a TurnState. *)
C26_EmptyAfterLeave ==
    \A c \in Users:
        (room[c] = NullRoom /\ op[c].step = "idle") =>
          (players[c] = <<>> /\ gameState[c] = NullGame)

(* C27: a roster UPDATE event replaces only score, lives and is_ready of the
   local entry that has the event's row id; that entry's profile, player_id
   and joined_at, every other entry and the order stay as they were, and an
   event for a row that is not in the local roster adds nothing. *)
C27_UpdateMergesThreeFields ==
    [][\A c \in Users:
         (DeliverRoom(c) /\ Head(roomQ[c]).type = "UPDATE") =>
           LET new == Head(roomQ[c]).row
               ps == players[c]
               qs == players'[c]
           IN /\ Len(qs) = Len(ps)
              /\ \A i \in 1..Len(ps):
                   IF ps[i].id = new.id
                   THEN qs[i] = [id |-> ps[i].id, room_id |-> ps[i].room_id,
                                 player_id |-> ps[i].player_id, score |-> new.score,
                                 lives |-> new.lives, is_ready |-> new.is_ready,
                                 joined_at |-> ps[i].joined_at,
                                 username |-> ps[i].username]
                   ELSE qs[i] = ps[i]]_vars

\* The host has toggled ready once and the UPDATE event has been merged into
\* the host's roster (no other call has been made): the entry is no longer
\* ready and still carries the host's profile and stored join time.
C27_Witness ==
    /\ ops = LobbyOps - 1
    /\ roomQ[HostUser] = <<>>
    /\ players[HostUser] =
         <<[MappedPlayer(NewRow(1, TheRoom, HostUser)) EXCEPT !.is_ready = FALSE]>>

(* C28: a roster INSERT event appends its entry at the end of the local roster
   exactly once: when the row id is already present the roster is unchanged,
   and when the profile lookup fails or finds nothing the entry is appended
   all the same, with the placeholder username. *)
C28_InsertAppendsOnce ==
    [][\A c \in Users, found \in BOOLEAN:
         InsertDone(c, found) =>
           LET ps == players[c]
               qs == players'[c]
               gone == insPend[c] \ insPend'[c]
           IN \A row \in gone:
                IF \E i \in 1..Len(ps): ps[i].id = row.id
                THEN qs = ps
                ELSE /\ Len(qs) = Len(ps) + 1
                     /\ SubSeq(qs, 1, Len(ps)) = ps
                     /\ qs[Len(qs)].id = row.id
                     /\ qs[Len(qs)].player_id = row.player_id
                     /\ qs[Len(qs)].score = row.score
                     /\ qs[Len(qs)].lives = row.lives
                     /\ qs[Len(qs)].is_ready = row.is_ready
                     /\ qs[Len(qs)].username =
                          (IF found THEN UsernameOf(row.player_id) ELSE Placeholder)]_vars

\* The host's roster ends with an entry appended by an INSERT handler whose
\* profile lookup failed: another participant under the placeholder username.
C28_Witness ==
    /\ Len(players[HostUser]) = 2
    /\ players[HostUser][2].player_id # HostUser
    /\ players[HostUser][2].username = Placeholder
    /\ players[HostUser][2].joined_at = ClockJoinTime
    /\ insPend[HostUser] = {}

(* C29: on the game screen submitAnswer is called only by a client whose own
   identity is the current_turn of the TurnState it holds, and not while the
   turn-change interstitial is showing: a guess made out of turn, without a
   TurnState or during the interstitial writes nothing. *)
C29_GuessOnlyInTurn ==
    [][\A c \in Users, b \in BOOLEAN, nq \in Questions \cup {NoQuestion}:
         SubmitAnswer(c, b, nq) =>
           /\ gameState[c] # NullGame
           /\ gameState[c].current_turn = c
           /\ interstitial[c] = NoInterstitial]_vars

\* B has answered through the screen: the turn passed from A to B, B's client
\* received it and finished its countdown, and B's correct guess was written.
C29_Witness ==
    /\ \E i \in 1..Len(dbPlayers):
         dbPlayers[i].player_id = "B" /\ dbPlayers[i].score = 1
    /\ interstitial["B"] = NoInterstitial
    /\ gameState["B"].current_turn = "B"

(* C30: each persisted turn is answered at most once: a participant's score
   or lives change only while the persisted TurnState names that participant,
   so a second guess made before the turn-advance event has reached the
   guesser changes nothing. *)
C30_TurnAnsweredOnce ==
    [][\A i \in 1..Len(dbPlayers):
         (i <= Len(dbPlayers') /\ dbPlayers'[i].id = dbPlayers[i].id
            /\ (dbPlayers'[i].score # dbPlayers[i].score
                  \/ dbPlayers'[i].lives # dbPlayers[i].lives)) =>
           dbGame[dbPlayers[i].room_id].current_turn = dbPlayers[i].player_id]_vars

(* C31: when the current_turn participant has no entry in the caller's local
   roster, submitAnswer with a next question hands the turn to the roster's
   first entry and adds one to round; in every case the next turn holder is an
   entry of the caller's roster. *)
C31_AbsentTurnHolder ==
    [][\A c \in Users, b \in BOOLEAN, nq \in Questions:
         SubmitAnswer(c, b, nq) =>
           LET ps == players[c]
               absent == \A i \in 1..Len(ps): ps[i].player_id # gameState[c].current_turn
           IN /\ \E i \in 1..Len(ps): op'[c].turn = ps[i].player_id
              /\ absent => /\ op'[c].turn = ps[1].player_id
                           /\ op'[c].round = gameState[c].round + 1]_vars

\* A has left and C's roster is [B, C] while C's TurnState still names A: C's
\* submitAnswer is about to hand the turn to B with round 2.
C31_Witness ==
    /\ Len(players["C"]) = 2
    /\ players["C"][1].player_id = "B"
    /\ gameState["C"].current_turn = "A"
    /\ op["C"].step = "a_rotate"
    /\ op["C"].turn = "B"
    /\ op["C"].round = gameState["C"].round + 1

\* The store rejects a write of createRoom, joinRoom or startGame issued by c.
RejectedWrite(c) ==
    \/ CreateInsert(c, FALSE)
    \/ CreatePlayer(c, FALSE)
    \/ JoinUpdateReady(c, FALSE)
    \/ JoinInsert(c, FALSE)
    \/ \E q \in Questions: StartGame(c, q, FALSE) /\ ~StartMustFail(c)
    \/ StartInsert(c, FALSE)

(* C32: when the store rejects a write of createRoom, joinRoom or startGame,
   the call ends there and the caller's local room, roster and TurnState and
   its subscriptions are what they were: the call changes no local state and
   opens no subscription. *)
C32_FailedWriteLeavesState ==
    [][\A c \in Users:
         RejectedWrite(c) =>
           /\ op'[c].step = "idle"
           /\ room'[c] = room[c]
           /\ players'[c] = players[c]
           /\ gameState'[c] = gameState[c]
           /\ roomChannel'[c] = roomChannel[c]
           /\ gameChannel'[c] = gameChannel[c]]_vars

(* C33: whenever the store rejects a write issued by createRoom, joinRoom,
   leaveRoom, toggleReady or startGame, the caller's error is set to the
   failure's message. *)
C33_FailureReported ==
    [][\A c \in Users:
         (RejectedWrite(c) \/ LeaveRoom(c, FALSE) \/ ToggleReady(c, FALSE)) =>
           error'[c] = "backend"]_vars

(* C34: a client that is in a room, with no call under way, holds its roster
   subscription and its turn subscription for that room and for no other,
   and its local roster has entries of that room only: after a join made
   from another room the previous room's events no longer reach its view. *)
C34_SubscriptionsFollowRoom ==
    \A c \in Users:
        (room[c] # NullRoom /\ op[c].step = "idle") =>
          /\ roomChannel[c] = room[c].id
          /\ gameChannel[c] = room[c].id
          /\ \A i \in 1..Len(players[c]): players[c][i].room_id = room[c].id

\* The host of room rid has a row in the room's persisted roster.
HostPresent(rid) ==
    \E i \in 1..Len(dbPlayers):
        dbPlayers[i].room_id = rid /\ dbPlayers[i].player_id = dbRooms[rid].host_id

(* C35: no step changes the host_id of a room; leaveRoom deletes the caller's
   rows and writes nothing else, so Room.host_id and Room.status stay; and a
   room whose host has left is not started: status becomes 'playing' only
   while the host has a row in the room. *)
C35_HostNeverReassigned ==
    [][/\ \A rid \in Rooms:
            /\ dbRooms[rid] # NullRoom => dbRooms'[rid].host_id = dbRooms[rid].host_id
            /\ (dbRooms'[rid].status = "playing" /\ dbRooms[rid].status # "playing")
                  => HostPresent(rid)
       /\ \A c \in Users:
            LeaveRoom(c, TRUE) =>
              /\ dbRooms' = dbRooms
              /\ dbGame' = dbGame
              /\ dbPlayers' = SelectSeq(dbPlayers, LAMBDA r:
                                 ~(r.room_id = room[c].id /\ r.player_id = c))]_vars

\* The host A has left r1 and B, who has seen A go, has made a start call:
\* the room is still waiting for its host A.
C35_Witness ==
    /\ ops = 0
    /\ room["A"] = NullRoom
    /\ RowsOfPlayer(TheRoom, "A") = <<>>
    /\ RowIds(players["B"]) = {2}
    /\ op["B"].step = "idle"
    /\ dbRooms[TheRoom].host_id = "A"
    /\ dbRooms[TheRoom].status = "waiting"

(* C36: toggleReady writes only is_ready of the caller's own row in its room,
   to the negation of is_ready of the caller's local roster entry: score and
   lives of that row, every other row, the rooms and the TurnStates stay, and
   there is no toggleReady write by a caller without a room or without a
   local entry of its own. *)
C36_ToggleWritesOwnReady ==
    [][\A c \in Users:
         /\ ToggleReady(c, TRUE) =>
              /\ dbRooms' = dbRooms
              /\ dbGame' = dbGame
              /\ Len(dbPlayers') = Len(dbPlayers)
              /\ \A i \in 1..Len(dbPlayers):
                   IF dbPlayers[i].room_id = room[c].id /\ dbPlayers[i].player_id = c
                   THEN dbPlayers'[i] =
                          [dbPlayers[i] EXCEPT !.is_ready = ~FindMe(players[c], c).is_ready]
                   ELSE dbPlayers'[i] = dbPlayers[i]
         /\ (room[c] = NullRoom \/ \A i \in 1..Len(players[c]): players[c][i].player_id # c)
              => \A ok \in BOOLEAN: ~ToggleReady(c, ok)]_vars

\* The host has toggled twice before the first UPDATE event reached its
\* roster: both writes stored the negation of the local value, not-ready.
C36_Witness ==
    /\ ops = LobbyOps - 2
    /\ Len(dbPlayers) = 1
    /\ dbPlayers[1].player_id = HostUser
    /\ dbPlayers[1].is_ready = FALSE
    /\ dbPlayers[1].score = 0
    /\ dbPlayers[1].lives = InitialLives
    /\ Len(roomQ[HostUser]) = 2
    /\ roomQ[HostUser][1].row.is_ready = FALSE
    /\ roomQ[HostUser][2].row.is_ready = FALSE

(* C37: with start calls made only through the lobby screen, every startGame
   call is made by the host of the caller's room while that room is waiting
   and the caller's local roster has at least two entries, all of them ready. *)
C37_LobbyStartGuard ==
    [][\A c \in Users, q \in Questions, ok \in BOOLEAN:
         StartGame(c, q, ok) =>
           /\ room[c].host_id = c
           /\ room[c].status = "waiting"
           /\ Len(players[c]) >= 2
           /\ \A i \in 1..Len(players[c]): players[c][i].is_ready]_vars

\* The host has started the match from the lobby, with both participants
\* ready in its roster: the room is playing and has its TurnState.
C37_Witness ==
    /\ ops = HostlessOps - 1
    /\ dbRooms[TheRoom].status = "playing"
    /\ dbGame[TheRoom] # NullGame
    /\ Len(RowsOf(TheRoom)) = 2

(* C38: the persisted lives and score of every roster row are never negative. *)
C38_LivesScoreNonNegative ==
    \A i \in 1..Len(dbPlayers): dbPlayers[i].lives >= 0 /\ dbPlayers[i].score >= 0

====
